---- MODULE Spec2Model ----
(***************************************************************************)
(* Model of semantic-scholar-plugin.py: the three MCP tools                *)
(* search_papers_via_semanticscholar, get_paper_details and search_authors.*)
(* One call is followed from its invocation to its return (or to the       *)
(* exception it lets escape).  Every await on the HTTP client is a step of *)
(* its own: the code between two awaits runs as one action.                *)
(*                                                                         *)
(* Python values: a dict is a function whose DOMAIN is the set of keys     *)
(* present, a list is a sequence, Optional[x] is None or Some(x), and      *)
(* str is a TLA+ string (identifiers whose characters matter are sequences *)
(* of one-character strings).                                              *)
(***************************************************************************)
EXTENDS Integers, Sequences, FiniteSets, TLC

\* The locals of the coroutine that is running or is the next to be resumed
VARIABLES pc, op, args, requests, outcomes, body, data, idx, result, exc

\* The module global API_KEY (line 15), and the frames of the coroutines
\* that are suspended at an await while another one runs
VARIABLES API_KEY, waiting

vars == <<pc, op, args, requests, outcomes, body, data, idx, result, exc,
          API_KEY, waiting>>

(***************************************************************************)
(* Bounds of the model.                                                    *)
(***************************************************************************)
MaxPapers == 2
MaxAuthors == 2
MaxIdLen == 6

(***************************************************************************)
(* Python values.                                                          *)
(***************************************************************************)
None == [some |-> FALSE, v |-> 0]
Some(x) == [some |-> TRUE, v |-> x]

EmptyDict == <<>>

Get(d, k, default) == IF k \in DOMAIN d THEN d[k] ELSE default

Has(d, k) == k \in DOMAIN d

Restrict(d, S) == [k \in S |-> d[k]]

\* bool(x) of an Optional[int]: None and 0 are both falsy
TruthyInt(o) == o.some /\ o.v # 0

\* The first n elements of a list: xs[:n]
Take(xs, n) == SubSeq(xs, 1, IF Len(xs) < n THEN Len(xs) ELSE n)

(***************************************************************************)
(* Module constants.                                                       *)
(***************************************************************************)
FIELDS == "title,year,authors,venue,citationCount,externalIds,abstract,url,journal,fieldsOfStudy,publicationTypes,publicationDate,referenceCount,influentialCitationCount,isOpenAccess,s2FieldsOfStudy,publicationVenue,tldr"
BASE_URL == "https://api.semanticscholar.org/graph/v1/paper/search"
AUTHOR_URL == "https://api.semanticscholar.org/graph/v1/author/search"
PAPER_DETAILS_URL == "https://api.semanticscholar.org/graph/v1/paper/"
AUTHOR_FIELDS == "name,aliases,affiliations,homepage,paperCount,citationCount,hIndex,url"

(***************************************************************************)
(* Exceptions.  The classes the code can meet and their base classes       *)
(* (httpx, json and the builtins); an except clause catches an exception   *)
(* whose class is the named class or derives from it.                      *)
(***************************************************************************)
NoExc == ""

ExcParent ==
    [HTTPStatusError |-> "HTTPError",
     RequestError    |-> "HTTPError",
     HTTPError       |-> "Exception",
     ConnectError    |-> "RequestError",
     ReadTimeout     |-> "RequestError",
     JSONDecodeError |-> "ValueError",
     ValueError      |-> "Exception",
     AttributeError  |-> "Exception",
     TypeError       |-> "Exception",
     Exception       |-> "BaseException"]

RECURSIVE IsInstance(_, _)
IsInstance(e, cls) ==
    \/ e = cls
    \/ e \in DOMAIN ExcParent /\ IsInstance(ExcParent[e], cls)

(***************************************************************************)
(* JSON texts.  A text is the empty string, a text json.loads rejects, or  *)
(* a text that denotes a JSON value; a JSON value carries its type t and   *)
(* its content in the field of that type (s, n, b, xs or d).               *)
(***************************************************************************)
JVal(t, s, n, b, xs, d) == [t |-> t, s |-> s, n |-> n, b |-> b, xs |-> xs, d |-> d]
JNull == JVal("null", "", 0, FALSE, <<>>, EmptyDict)
JBool(b) == JVal("bool", "", 0, b, <<>>, EmptyDict)
JNum(n) == JVal("number", "", n, FALSE, <<>>, EmptyDict)
JStr(s) == JVal("string", s, 0, FALSE, <<>>, EmptyDict)
JArr(xs) == JVal("array", "", 0, FALSE, xs, EmptyDict)
JObj(d) == JVal("object", "", 0, FALSE, <<>>, d)

EmptyText == [kind |-> "empty", val |-> JNull]
MalformedText == [kind |-> "malformed", val |-> JNull]
JsonText(val) == [kind |-> "json", val |-> val]

\* bool(s) of a str
TruthyText(s) == s.kind # "empty"

\* advanced_filters=None
NoText == [some |-> FALSE, v |-> EmptyText]

\* bool(x) of a value json.loads returned
TruthyJson(j) ==
    CASE j.t = "null"   -> FALSE
      [] j.t = "bool"   -> j.b
      [] j.t = "number" -> j.n # 0
      [] j.t = "string" -> j.s # ""
      [] j.t = "array"  -> j.xs # <<>>
      [] j.t = "object" -> DOMAIN j.d # {}

\* json.loads(s): the value, or JSONDecodeError
json_loads(s) ==
    IF s.kind = "json" THEN [exc |-> NoExc, val |-> s.val]
    ELSE [exc |-> "JSONDecodeError", val |-> JNull]

\* json.dumps(d) of a dict
json_dumps(d) == JsonText(JObj(d))

(***************************************************************************)
(* Query builder of search_papers_via_semanticscholar.                     *)
(***************************************************************************)
YearFilter(year_from, year_to) ==
    IF TruthyInt(year_from) /\ TruthyInt(year_to)
        THEN ToString(year_from.v) \o "-" \o ToString(year_to.v)
    ELSE IF TruthyInt(year_from)
        THEN ToString(year_from.v) \o "-"
    ELSE IF TruthyInt(year_to)
        THEN "-" \o ToString(year_to.v)
    ELSE ""

YearParams(year_from, year_to) ==
    IF TruthyInt(year_from) \/ TruthyInt(year_to)
        THEN "year" :> YearFilter(year_from, year_to)
        ELSE EmptyDict

SortParams_unchecked(sort_by) ==
    IF sort_by # "" /\ sort_by # "relevance"
        THEN "sort" :> (sort_by \o ":desc")
        ELSE EmptyDict

SortParams(sort_by) ==
    IF sort_by # "" /\ sort_by # "relevance"
        THEN IF sort_by = "citationCount" THEN "sort" :> "citationCount:desc"
             ELSE IF sort_by = "year" THEN "sort" :> "year:desc"
             ELSE EmptyDict
        ELSE EmptyDict

\* The remote filter each user filter key becomes (lines 88-97)
FilterEntry(key, value) ==
    CASE key = "venue"              -> "venue" :> value
      [] key = "fields_of_study"    -> "fieldsOfStudy" :> JObj("$in" :> value)
      [] key = "publication_types"  -> "publicationTypes" :> JObj("$in" :> value)
      [] key = "min_citation_count" -> "citationCount" :> JObj("$gte" :> value)
      [] key = "is_open_access"     -> "isOpenAccess" :> value
      [] OTHER                      -> EmptyDict

FilterKeys == {"venue", "fields_of_study", "publication_types",
               "min_citation_count", "is_open_access"}

RECURSIVE MergeAll(_, _)
MergeAll(keys, filter_dict) ==
    IF keys = {} THEN EmptyDict
    ELSE LET key == CHOOSE k \in keys : TRUE
             rest == MergeAll(keys \ {key}, filter_dict)
         IN IF TruthyJson(filter_dict[key])
               THEN FilterEntry(key, filter_dict[key]) @@ rest
               ELSE rest

\* for key, value in filter_dict.items(): ... (each user key writes its own
\* remote key, so the order of the items does not matter)
TranslateFilters(filter_dict) == MergeAll(DOMAIN filter_dict, filter_dict)

\* Lines 83-99: the filters dict, or the exception that escapes
ProcessFilters(advanced_filters) ==
    IF ~(advanced_filters.some /\ TruthyText(advanced_filters.v))
        THEN [exc |-> NoExc, filters |-> EmptyDict]
    ELSE LET r == json_loads(advanced_filters.v) IN
        IF IsInstance(r.exc, "JSONDecodeError")
            THEN [exc |-> NoExc, filters |-> EmptyDict]
        ELSE IF r.val.t # "object"
            THEN [exc |-> "AttributeError", filters |-> EmptyDict]
        ELSE [exc |-> NoExc, filters |-> TranslateFilters(r.val.d)]

FilterParams(filters) ==
    IF DOMAIN filters # {} THEN "filter" :> json_dumps(filters) ELSE EmptyDict

SearchParams(a, filters) ==
    [query |-> a.keyword, limit |-> ToString(a.limit), fields |-> FIELDS]
        @@ YearParams(a.year_from, a.year_to)
        @@ SortParams(a.sort_by)
        @@ FilterParams(filters)

(***************************************************************************)
(* Transport.  What the remote side does with one GET: the client raises   *)
(* (connection failure, timeout), or a response arrives with a status code *)
(* and a body that is JSON or not.                                         *)
(***************************************************************************)
Raised(cls) == [exc |-> cls, code |-> 0, json |-> FALSE, body |-> EmptyDict]
Response(code, b) == [exc |-> NoExc, code |-> code, json |-> TRUE, body |-> b]
BadBody(code) == [exc |-> NoExc, code |-> code, json |-> FALSE, body |-> EmptyDict]

Exception(cls, msg, code) == [cls |-> cls, msg |-> msg, code |-> code]

NoException == Exception(NoExc, "", 0)

\* client.get(...): httpx raises a RequestError subclass when no response arrives
ClientGetExc(o) ==
    IF o.exc = NoExc THEN NoException
    ELSE Exception(o.exc, IF o.exc = "ReadTimeout" THEN "timed out" ELSE "connection failed", 0)

\* response.raise_for_status(): HTTPStatusError unless the status is 2xx
RaiseForStatus_accepting(o) == NoException

RaiseForStatus(o) ==
    IF o.code >= 200 /\ o.code <= 299 THEN NoException
    ELSE Exception("HTTPStatusError", "status " \o ToString(o.code), o.code)

\* response.json(): the decoded body, or JSONDecodeError
ResponseJsonExc(o) ==
    IF o.json THEN NoException
    ELSE Exception("JSONDecodeError", "Expecting value", 0)

\* Lines 114-116, 343-345, 644-646: get, raise_for_status, json; the first
\* exception of the three is the one raised
PrimaryExc(o) ==
    IF ClientGetExc(o).cls # NoExc THEN ClientGetExc(o)
    ELSE IF RaiseForStatus(o).cls # NoExc THEN RaiseForStatus(o)
    ELSE ResponseJsonExc(o)

(***************************************************************************)
(* The except clauses of each operation, in source order.  fmt tells how   *)
(* the clause renders the exception: "status" is                           *)
(* f"{e.response.status_code} - {e.response.text}", "str" is str(e).       *)
(***************************************************************************)
Handler(cls, prefix, fmt) == [cls |-> cls, prefix |-> prefix, fmt |-> fmt]

SearchHandlers ==
    << Handler("HTTPStatusError",
               "Error: Failed to retrieve data from Semantic Scholar API. HTTP error occurred: ",
               "status"),
       Handler("RequestError",
               "Error: Failed to connect to Semantic Scholar API. Request error occurred: ",
               "str"),
       Handler("Exception",
               "Error: An unexpected error occurred. Unexpected error: ",
               "str") >>

DetailsHandlers ==
    << Handler("HTTPStatusError",
               "Error: Failed to retrieve paper details. HTTP error occurred: ",
               "status"),
       Handler("Exception",
               "Error: An unexpected error occurred. Unexpected error: ",
               "str") >>

AuthorsHandlers_status_only ==
    << Handler("HTTPStatusError", "Error: Failed to search for authors. ", "str") >>

AuthorsHandlers ==
    << Handler("Exception", "Error: Failed to search for authors. ", "str") >>

ResponseText == "error body"

ErrorDetail(h, e) ==
    IF h.fmt = "status" THEN ToString(e.code) \o " - " \o ResponseText ELSE e.msg

\* The index of the first except clause that catches e, 0 when none does
RECURSIVE FirstHandler(_, _, _)
FirstHandler(handlers, e, i) ==
    IF i > Len(handlers) THEN 0
    ELSE IF IsInstance(e.cls, handlers[i].cls) THEN i
    ELSE FirstHandler(handlers, e, i + 1)

(***************************************************************************)
(* The string an operation returns: the text the code writes itself        *)
(* (prefix), the text it interpolates (detail), and one entry per rendered *)
(* record (doc).                                                           *)
(***************************************************************************)
NoResult == [prefix |-> "", detail |-> "", doc |-> <<>>]

Message(prefix, detail) == [prefix |-> prefix, detail |-> detail, doc |-> <<>>]

Document(prefix, detail, doc) == [prefix |-> prefix, detail |-> detail, doc |-> doc]

(***************************************************************************)
(* Renderer helpers.                                                       *)
(***************************************************************************)
NoneStr == [some |-> FALSE, v |-> ""]

\* str of a list of one-character strings
RECURSIVE Str(_)
Str(cs) == IF cs = <<>> THEN "" ELSE Head(cs) \o Str(Tail(cs))

\* f"{n:,}" (the counts of the model stay below 1000, where no separator appears)
FormatCount(n) == ToString(n)

\* paper.get('year', default), formatted
YearText(p, default) == IF Has(p, "year") THEN ToString(p.year) ELSE default

\* ext_ids.get('DOI') when externalIds is present and not empty, else ""
DoiOf(p) ==
    LET ext_ids == Get(p, "externalIds", EmptyDict)
    IN IF DOMAIN ext_ids # {} THEN Get(ext_ids, "DOI", "") ELSE ""

\* paper['tldr']['text'] when both are present and not empty, else ""
TldrOf(p) ==
    LET tldr == Get(p, "tldr", EmptyDict)
    IN IF DOMAIN tldr # {} THEN Get(tldr, "text", "") ELSE ""

\* The titles of the nested records xs
Titles(xs) == [i \in 1..Len(xs) |-> Get(xs[i], "title", "Untitled")]

\* sep.join(xs)
RECURSIVE Join(_, _)
Join(xs, sep) ==
    IF xs = <<>> THEN ""
    ELSE IF Len(xs) = 1 THEN xs[1]
    ELSE xs[1] \o sep \o Join(Tail(xs), sep)

\* [a.get('name', '') for a in authors]
Names(authors) == [i \in 1..Len(authors) |-> Get(authors[i], "name", "")]

\* The display caps of the author lists
AuthorLineCap == 5
CitationBlockCap == 6
KeyCitationCap == 3
KeyReferenceCap == 3
DetailsCitationCap == 5
DetailsReferenceCap == 3

\* ', '.join(names[:cap]), followed by ' et al.' when the list is longer
\* than cap (lines 250-252, 261-263, 276-278, 460-462, 486-488)
EtAl_from_cap(authors, cap) ==
    Join(Take(Names(authors), cap), ", ")
        \o (IF Len(authors) >= cap THEN " et al." ELSE "")

EtAl(authors, cap) ==
    Join(Take(Names(authors), cap), ", ")
        \o (IF Len(authors) > cap THEN " et al." ELSE "")

\* The author strings of the nested records xs; a record without authors
\* gives ""
NestedAuthors(xs, cap) ==
    [i \in 1..Len(xs) |-> EtAl(Get(xs[i], "authors", <<>>), cap)]

\* Lines 168-174: the name of an author, linked when the author has an id
AuthorLink(author) ==
    LET author_name == Get(author, "name", "")
        author_id == Get(author, "authorId", "")
    IN IF author_id # ""
          THEN "[" \o author_name \o "](https://www.semanticscholar.org/author/"
                   \o author_id \o ")"
          ELSE author_name

\* Lines 162-179: the authors line of a search result, "" when the paper
\* has no authors
AuthorLine(paper) ==
    LET authors == Get(paper, "authors", <<>>)
        shown == Take(authors, AuthorLineCap)
    IN IF authors = <<>> THEN ""
       ELSE Join([i \in 1..Len(shown) |-> AuthorLink(shown[i])], ", ")
               \o (IF Len(authors) > AuthorLineCap
                      THEN " and " \o ToString(Len(authors) - AuthorLineCap) \o " others"
                      ELSE "")

(***************************************************************************)
(* Renderer of search_papers_via_semanticscholar (lines 148-301).          *)
(***************************************************************************)
\* Lines 183-184: journal.get('name') if journal else None
SearchJournalName(paper) ==
    LET journal == Get(paper, "journal", EmptyDict)
    IN IF DOMAIN journal # {} /\ Has(journal, "name")
          THEN Some(journal.name) ELSE NoneStr

\* Lines 155-291: one entry of the listing; "" and <<>> are omitted sections
RenderSearchPaper(paper) ==
    LET venue == Get(paper, "venue", "N/A")
        journal_name == SearchJournalName(paper)
        named == journal_name.some /\ journal_name.v # ""
    IN [title          |-> Get(paper, "title", "Untitled"),
        year           |-> YearText(paper, "N/A"),
        publication    |-> IF named THEN "Journal: " \o journal_name.v
                           ELSE IF venue # "" THEN "Venue: " \o venue
                           ELSE "",
        citations      |-> FormatCount(Get(paper, "citationCount", 0)),
        doi            |-> DoiOf(paper),
        tldr           |-> TldrOf(paper),
        abstract       |-> Get(paper, "abstract", ""),
        key_citations  |-> Titles(Take(Get(paper, "citations", <<>>), 3)),
        key_references |-> Titles(Take(Get(paper, "references", <<>>), 3)),
        cite_year      |-> YearText(paper, "n.d."),
        cite_venue     |-> IF named THEN journal_name.v ELSE venue,
        authors        |-> AuthorLine(paper),
        cite_authors   |-> EtAl(Get(paper, "authors", <<>>), CitationBlockCap),
        key_citation_authors  |->
            NestedAuthors(Take(Get(paper, "citations", <<>>), 3), KeyCitationCap),
        key_reference_authors |->
            NestedAuthors(Take(Get(paper, "references", <<>>), 3), KeyReferenceCap)]

\* Line 148: not data.get('data')
NoData_missing_key_only(d) == ~Has(d, "data")

NoData(d) == ~Has(d, "data") \/ d.data = <<>>

NoPapersMessage == "No papers found matching your search criteria."

\* Lines 148-301: the string returned once the requests are over
SearchReturn(a, d) ==
    IF NoData(d) THEN [prefix |-> NoPapersMessage, detail |-> "", doc |-> <<>>]
    ELSE [prefix |-> "# Academic Search Results for '",
          detail |-> a.keyword \o "' Found " \o FormatCount(Get(d, "total", 0))
                     \o " papers. Showing " \o ToString(Len(d.data))
                     \o " results sorted by " \o a.sort_by,
          doc    |-> [i \in 1..Len(d.data) |-> RenderSearchPaper(d.data[i])]]

(***************************************************************************)
(* Renderer of get_paper_details (lines 355-621).                          *)
(***************************************************************************)
\* Line 511: journal.get('name') if journal else (venue or 'Unknown Journal')
DetailsJournalName(d) ==
    LET journal == Get(d, "journal", EmptyDict)
        venue == Get(d, "venue", "")
    IN IF DOMAIN journal # {}
          THEN IF Has(journal, "name") THEN Some(journal.name) ELSE NoneStr
          ELSE Some(IF venue # "" THEN venue ELSE "Unknown Journal")

\* Line 579: "Conference" in journal_name is a TypeError when journal_name is None
DetailsRenderExc(d) ==
    IF DetailsJournalName(d).some THEN NoExc ELSE "TypeError"

\* Lines 386-397: the journal or venue line
DetailsPublication(d) ==
    LET journal == Get(d, "journal", EmptyDict)
        venue == Get(d, "venue", "")
    IN IF DOMAIN journal # {} /\ Get(journal, "name", "") # ""
          THEN "Journal: " \o journal.name
       ELSE IF venue # "" THEN "Publication Venue: " \o venue
       ELSE ""

NoPaperMessage == "No paper found with the provided ID or DOI."

\* Lines 358-621: the document of one paper
RenderDetails(a, d) ==
    [title          |-> Get(d, "title", "Untitled Paper"),
     year           |-> YearText(d, "N/A"),
     publication    |-> DetailsPublication(d),
     citations      |-> FormatCount(Get(d, "citationCount", 0)),
     doi            |-> DoiOf(d),
     tldr           |-> TldrOf(d),
     abstract       |-> Get(d, "abstract", ""),
     key_citations  |-> IF a.include_citations
                           THEN Titles(Get(d, "citations", <<>>)) ELSE <<>>,
     key_references |-> IF a.include_references
                           THEN Titles(Get(d, "references", <<>>)) ELSE <<>>,
     cite_year      |-> YearText(d, "n.d."),
     cite_venue     |-> DetailsJournalName(d).v,
     key_citation_authors  |->
         IF a.include_citations
            THEN NestedAuthors(Get(d, "citations", <<>>), DetailsCitationCap) ELSE <<>>,
     key_reference_authors |->
         IF a.include_references
            THEN NestedAuthors(Get(d, "references", <<>>), DetailsReferenceCap) ELSE <<>>]

(***************************************************************************)
(* Renderer of search_authors (lines 651-689).                             *)
(***************************************************************************)
RenderAuthor(author) ==
    LET author_id == Get(author, "authorId", "")
        url == Get(author, "url", "")
    IN [name    |-> Get(author, "name", "Unknown"),
        h_index |-> IF Has(author, "hIndex") THEN ToString(author.hIndex) ELSE "N/A",
        profile |-> IF url # "" THEN url
                    ELSE IF author_id # ""
                        THEN "https://www.semanticscholar.org/author/" \o author_id
                    ELSE ""]

NoAuthorsPrefix == "No authors found matching '"

\* Line 651: not data.get('data')
NoAuthorData(d) == ~Has(d, "data") \/ d.data = <<>>

AuthorsReturn(a, d) ==
    IF NoAuthorData(d) THEN [prefix |-> NoAuthorsPrefix, detail |-> a.author_name \o "'.", doc |-> <<>>]
    ELSE [prefix |-> "# Author Search Results for '",
          detail |-> a.author_name \o "' Found " \o FormatCount(Get(d, "total", 0))
                     \o " authors. Showing top " \o ToString(Len(d.data)),
          doc    |-> [i \in 1..Len(d.data) |-> RenderAuthor(d.data[i])]]

(***************************************************************************)
(* The operations.                                                         *)
(***************************************************************************)
\* os.environ.get("SEMANTIC_SCHOLAR_API_KEY"), line 15
ApiKeys == {[some |-> FALSE, v |-> ""], [some |-> TRUE, v |-> "key1"]}

Init ==
    /\ API_KEY \in ApiKeys
    /\ waiting = <<>>
    /\ pc = "idle"
    /\ op = "none"
    /\ args = EmptyDict
    /\ requests = <<>>
    /\ outcomes = <<>>
    /\ body = EmptyDict
    /\ data = EmptyDict
    /\ idx = 0
    /\ result = NoResult
    /\ exc = NoExc

\* Lines 106-109, 336-338 and 639-641: the headers of every GET of a call
Headers(key) ==
    IF key.some /\ key.v # "" THEN "x-api-key" :> key.v ELSE EmptyDict

\* One GET: idx is 0 for the primary request of the call and i for the
\* detail request of the i-th paper of a search
Request(i, url, params) ==
    [idx |-> i, url |-> url, params |-> params, headers |-> Headers(API_KEY)]

\* An exception e reaches the except clauses of an operation: the first
\* clause that catches it returns its string, and e escapes when none does
HandleRaise(handlers, e) ==
    LET h == FirstHandler(handlers, e, 1)
    IN IF h = 0
          THEN /\ pc' = "raised"
               /\ exc' = e.cls
               /\ result' = result
          ELSE /\ pc' = "returned"
               /\ exc' = NoExc
               /\ result' = [prefix |-> handlers[h].prefix,
                             detail |-> ErrorDetail(handlers[h], e),
                             doc    |-> <<>>]

\* search_papers_via_semanticscholar, lines 57-114: the parameters are built
\* and the primary GET is issued, unless the filters raise before the try
search_papers_via_semanticscholar(Calls) ==
    /\ pc = "idle"
    /\ \E a \in Calls :
        /\ op' = "search_papers"
        /\ args' = a
        /\ LET f == ProcessFilters(a.advanced_filters)
           IN IF f.exc # NoExc
                 THEN /\ pc' = "raised"
                      /\ exc' = f.exc
                      /\ requests' = requests
                 ELSE /\ pc' = "await_primary"
                      /\ exc' = exc
                      /\ requests' = <<Request(0, BASE_URL, SearchParams(a, f.filters))>>
    /\ UNCHANGED <<outcomes, body, data, idx, result, API_KEY, waiting>>

\* Line 119: data.get('data') and len(data['data']) > 0
HasPapers(d) == Has(d, "data") /\ Len(d.data) > 0

\* Line 121: paper.get('paperId')
HasPaperId(paper) == Get(paper, "paperId", "") # ""

\* Lines 120-121: the first paper at or after position i that has a paperId,
\* 0 when there is none
RECURSIVE NextWithId_until_missing(_, _)
NextWithId_until_missing(d, i) ==
    IF ~HasPapers(d) \/ i > Len(d.data) THEN 0
    ELSE IF HasPaperId(d.data[i]) THEN i
    ELSE 0

RECURSIVE NextWithId(_, _)
NextWithId(d, i) ==
    IF ~HasPapers(d) \/ i > Len(d.data) THEN 0
    ELSE IF HasPaperId(d.data[i]) THEN i
    ELSE NextWithId(d, i + 1)

\* Line 124
DetailsUrl(paper) ==
    PAPER_DETAILS_URL \o paper.paperId \o "?fields=" \o FIELDS
        \o ",references.limit(5),citations.limit(5)"

\* Lines 120-125 and 148-301: the loop goes on to the next paper that has a
\* paperId and issues its detail GET; past the last paper the call returns
SearchContinue(d, i) ==
    LET j == NextWithId(d, i)
    IN /\ data' = d
       /\ exc' = exc
       /\ IF j = 0
             THEN /\ pc' = "returned"
                  /\ idx' = 0
                  /\ requests' = requests
                  /\ result' = SearchReturn(args, d)
             ELSE /\ pc' = "await_secondary"
                  /\ idx' = j
                  /\ requests' = Append(requests, Request(j, DetailsUrl(d.data[j]), EmptyDict))
                  /\ result' = result

\* Lines 114-146: the primary response of a search arrives
SearchPrimaryResponse(Outcomes) ==
    /\ pc = "await_primary"
    /\ op = "search_papers"
    /\ UNCHANGED <<op, args, API_KEY, waiting>>
    /\ \E o \in Outcomes :
        /\ outcomes' = Append(outcomes, o)
        /\ LET e == PrimaryExc(o)
           IN IF e.cls # NoExc
                 THEN /\ HandleRaise(SearchHandlers, e)
                      /\ UNCHANGED <<requests, body, data, idx>>
                 ELSE /\ body' = o.body
                      /\ SearchContinue(o.body, 1)

\* Lines 125-126: the exception of one detail fetch, if any
SecondaryExc(o) ==
    IF ClientGetExc(o).cls # NoExc THEN ClientGetExc(o)
    ELSE IF o.code = 200 THEN ResponseJsonExc(o)
    ELSE NoException

\* Line 132: except Exception
DetailsFetchCaught_request_errors_only(e) == IsInstance(e.cls, "RequestError")

DetailsFetchCaught(e) == IsInstance(e.cls, "Exception")

\* Lines 126-131: a 200 response fills the three enrichment fields
Enrich(d, i, o) ==
    IF SecondaryExc(o).cls = NoExc /\ o.code = 200
        THEN LET paper_details == o.body
                 filled == [references |-> Get(paper_details, "references", <<>>),
                            citations  |-> Get(paper_details, "citations", <<>>),
                            tldr       |-> Get(paper_details, "tldr", EmptyDict)]
             IN [d EXCEPT !.data[i] = filled @@ @]
        ELSE d

\* Lines 125-133: the response of the detail fetch of paper idx arrives
SearchSecondaryResponse(Outcomes) ==
    /\ pc = "await_secondary"
    /\ UNCHANGED <<op, args, body, API_KEY, waiting>>
    /\ \E o \in Outcomes :
        /\ outcomes' = Append(outcomes, o)
        /\ LET e == SecondaryExc(o)
           IN IF e.cls # NoExc /\ ~DetailsFetchCaught(e)
                 THEN /\ HandleRaise(SearchHandlers, e)
                      /\ UNCHANGED <<requests, data, idx>>
                 ELSE SearchContinue(Enrich(data, idx, o), idx + 1)

(***************************************************************************)
(* get_paper_details                                                       *)
(***************************************************************************)
\* paper_id.startswith("10.")
StartsWith10Dot_no_dot(paper_id) ==
    Len(paper_id) >= 2 /\ SubSeq(paper_id, 1, 2) = <<"1", "0">>

StartsWith10Dot(paper_id) ==
    Len(paper_id) >= 3 /\ SubSeq(paper_id, 1, 3) = <<"1", "0", ".">>

\* "/" in paper_id
ContainsSlash(paper_id) == \E i \in 1..Len(paper_id) : paper_id[i] = "/"

\* Lines 314-319
Endpoint(paper_id) ==
    IF StartsWith10Dot(paper_id) \/ ContainsSlash(paper_id)
        THEN PAPER_DETAILS_URL \o "DOI:" \o Str(paper_id)
        ELSE PAPER_DETAILS_URL \o Str(paper_id)

\* Lines 322-331
FieldsParam(a) ==
    FIELDS \o (IF a.include_references THEN ",references.limit(20)" ELSE "")
           \o (IF a.include_citations THEN ",citations.limit(20)" ELSE "")

\* Lines 313-343: the endpoint is chosen and the primary GET is issued
get_paper_details(Calls) ==
    /\ pc = "idle"
    /\ \E a \in Calls :
        /\ op' = "get_paper_details"
        /\ args' = a
        /\ requests' = <<Request(0, Endpoint(a.paper_id), [fields |-> FieldsParam(a)])>>
    /\ pc' = "await_primary"
    /\ UNCHANGED <<outcomes, body, data, idx, result, exc, API_KEY, waiting>>

\* Lines 343-621: the response arrives; the document is rendered outside the try
DetailsPrimaryResponse(Outcomes) ==
    /\ pc = "await_primary"
    /\ op = "get_paper_details"
    /\ UNCHANGED <<op, args, requests, idx, API_KEY, waiting>>
    /\ \E o \in Outcomes :
        /\ outcomes' = Append(outcomes, o)
        /\ LET e == PrimaryExc(o)
           IN IF e.cls # NoExc
                 THEN /\ HandleRaise(DetailsHandlers, e)
                      /\ UNCHANGED <<body, data>>
                 ELSE /\ body' = o.body
                      /\ data' = o.body
                      /\ IF DOMAIN o.body = {}
                            THEN /\ pc' = "returned"
                                 /\ exc' = exc
                                 /\ result' = [prefix |-> NoPaperMessage, detail |-> "",
                                               doc |-> <<>>]
                         ELSE IF DetailsRenderExc(o.body) # NoExc
                            THEN /\ pc' = "raised"
                                 /\ exc' = DetailsRenderExc(o.body)
                                 /\ result' = result
                         ELSE /\ pc' = "returned"
                              /\ exc' = exc
                              /\ result' = [prefix |-> "# ", detail |-> "",
                                            doc |-> <<RenderDetails(args, o.body)>>]

(***************************************************************************)
(* search_authors                                                          *)
(***************************************************************************)
\* Lines 632-644
search_authors(Calls) ==
    /\ pc = "idle"
    /\ \E a \in Calls :
        /\ op' = "search_authors"
        /\ args' = a
        /\ requests' = <<Request(0, AUTHOR_URL,
                                 [query |-> a.author_name, limit |-> ToString(a.limit),
                                  fields |-> AUTHOR_FIELDS])>>
    /\ pc' = "await_primary"
    /\ UNCHANGED <<outcomes, body, data, idx, result, exc, API_KEY, waiting>>

\* Lines 644-689
AuthorsPrimaryResponse(Outcomes) ==
    /\ pc = "await_primary"
    /\ op = "search_authors"
    /\ UNCHANGED <<op, args, requests, idx, API_KEY, waiting>>
    /\ \E o \in Outcomes :
        /\ outcomes' = Append(outcomes, o)
        /\ LET e == PrimaryExc(o)
           IN IF e.cls # NoExc
                 THEN /\ HandleRaise(AuthorsHandlers, e)
                      /\ UNCHANGED <<body, data>>
                 ELSE /\ body' = o.body
                      /\ data' = o.body
                      /\ pc' = "returned"
                      /\ exc' = exc
                      /\ result' = AuthorsReturn(args, o.body)

(***************************************************************************)
(* Inputs: the arguments a caller passes and the responses the remote API  *)
(* gives.                                                                  *)
(***************************************************************************)
SeqsUpTo(S, n) == UNION {[1..k -> S] : k \in 1..n}

\* All the dicts that keep a subset of the keys of d
SubDicts(d) == {Restrict(d, S) : S \in SUBSET DOMAIN d}

ArrayText == JsonText(JArr(<<JNum(1), JNum(2)>>))
VenueText == JsonText(JObj([venue |-> JStr("Nature")]))

SearchArgs ==
    [keyword : {"ml"}, limit : {10},
     year_from : {None, Some(2020)}, year_to : {None},
     sort_by : {"relevance", "year"},
     advanced_filters : {NoText, Some(MalformedText), Some(ArrayText), Some(VenueText)}]

DoiId == <<"1", "0", ".", "1", "/", "a">>
NativeId == <<"a", "1">>

DetailsArgs ==
    [paper_id : {DoiId, NativeId},
     include_references : BOOLEAN, include_citations : BOOLEAN]

AuthorsArgs == [author_name : {"Ada"}, limit : {10}]

StatusCodes == {404, 500}

\* The ways a GET fails
Failures == {Raised("ConnectError"), Raised("ReadTimeout"), BadBody(200)}
                \cup {Response(c, EmptyDict) : c \in StatusCodes}

FullPaper ==
    [paperId |-> "p1", title |-> "T", year |-> 2020, venue |-> "V",
     journal |-> [name |-> "J"], citationCount |-> 7,
     externalIds |-> [DOI |-> "10.1/a"], abstract |-> "A",
     tldr |-> [text |-> "summary"]]

SearchShapes ==
    {FullPaper,
     Restrict(FullPaper, {"paperId"}),
     Restrict(FullPaper, DOMAIN FullPaper \ {"paperId", "tldr", "title", "venue"}),
     [FullPaper EXCEPT !.paperId = "", !.journal = [volume |-> "12"]],
     EmptyDict}

SearchBodies ==
    {EmptyDict, [data |-> <<>>], [total |-> 0, data |-> <<>>]}
        \cup {[total |-> 532, data |-> ps] : ps \in SeqsUpTo(SearchShapes, MaxPapers)}

Nested(t) == [title |-> t, year |-> 2019]

EnrichBodies ==
    {EmptyDict,
     [references |-> <<Nested("R1")>>,
      citations |-> <<Nested("C1"), EmptyDict, Nested("C3"), Nested("C4")>>,
      tldr |-> [text |-> "detail summary"]]}

SecondaryOutcomes ==
    {Raised("ReadTimeout"), BadBody(200), Response(404, EmptyDict)}
        \cup {Response(200, b) : b \in EnrichBodies}

JournalValues == {[name |-> "Nature", volume |-> "12"], [volume |-> "12"], EmptyDict}

FullDetails(journal) ==
    [title |-> "T", year |-> 2020, venue |-> "V", journal |-> journal,
     citationCount |-> 7, externalIds |-> [DOI |-> "10.1/a"], abstract |-> "A",
     citations |-> <<Nested("C1"), EmptyDict>>, references |-> <<Nested("R1")>>]

DetailsBodies == UNION {SubDicts(FullDetails(j)) : j \in JournalValues}

FullAuthor == [authorId |-> "a1", name |-> "Ada L", hIndex |-> 3, url |-> "u"]

AuthorsBodies ==
    {EmptyDict, [data |-> <<>>], [total |-> 0, data |-> <<>>]}
        \cup {[total |-> 12, data |-> xs] : xs \in SeqsUpTo(SubDicts(FullAuthor), MaxAuthors)}

(***************************************************************************)
(* The specification: one call of one operation, from its invocation to    *)
(* its return.                                                             *)
(***************************************************************************)
SearchOutcomes == Failures \cup {Response(200, b) : b \in SearchBodies}
DetailsOutcomes == Failures \cup {Response(200, b) : b \in DetailsBodies}
AuthorsOutcomes == Failures \cup {Response(200, b) : b \in AuthorsBodies}

Next ==
    \/ search_papers_via_semanticscholar(SearchArgs)
    \/ SearchPrimaryResponse(SearchOutcomes)
    \/ SearchSecondaryResponse(SecondaryOutcomes)
    \/ get_paper_details(DetailsArgs)
    \/ DetailsPrimaryResponse(DetailsOutcomes)
    \/ search_authors(AuthorsArgs)
    \/ AuthorsPrimaryResponse(AuthorsOutcomes)

Spec == Init /\ [][Next]_vars

\* A response arrives, or the client raises its timeout (timeout=30.0 at
\* lines 112, 341 and 643), and the event loop resumes the coroutine
Responses ==
    \/ SearchPrimaryResponse(SearchOutcomes)
    \/ SearchSecondaryResponse(SecondaryOutcomes)
    \/ DetailsPrimaryResponse(DetailsOutcomes)
    \/ AuthorsPrimaryResponse(AuthorsOutcomes)

\* Every awaited GET is answered in the end
SpecFair == Spec /\ WF_vars(Responses)

(***************************************************************************)
(* The query builder on all its inputs.                                    *)
(***************************************************************************)
Years == {None, Some(0), Some(1999), Some(2020)}

SortKeys == {"relevance", "citationCount", "year", "date", ""}

FilterValues ==
    [venue              |-> {JStr("Nature"), JStr("")},
     fields_of_study    |-> {JArr(<<JStr("Medicine")>>), JArr(<<>>)},
     publication_types  |-> {JArr(<<JStr("Review")>>)},
     min_citation_count |-> {JNum(10), JNum(0)},
     is_open_access     |-> {JBool(TRUE), JBool(FALSE)},
     colour             |-> {JStr("red")}]

\* Every JSON object that gives some of the keys one of their values
FilterObjects ==
    UNION {{d \in [S -> UNION {FilterValues[k] : k \in S}] :
                \A k \in S : d[k] \in FilterValues[k]} : S \in SUBSET DOMAIN FilterValues}

FilterTexts ==
    {EmptyText, MalformedText, ArrayText, JsonText(JNull), JsonText(JNum(3)),
     JsonText(JStr("Nature")), JsonText(JBool(TRUE))}
        \cup {JsonText(JObj(d)) : d \in FilterObjects}

QueryArgs ==
    [keyword : {"ml"}, limit : {10},
     year_from : Years, year_to : Years,
     sort_by : SortKeys,
     advanced_filters : {NoText} \cup {Some(t) : t \in FilterTexts}]

NextQuery == search_papers_via_semanticscholar(QueryArgs)

SpecQuery == Init /\ [][NextQuery]_vars

(***************************************************************************)
(* The endpoint of get_paper_details on all identifiers up to MaxIdLen.    *)
(***************************************************************************)
IdChars == {"0", "1", "a", ".", "/"}

RouteArgs ==
    [paper_id : SeqsUpTo(IdChars, MaxIdLen),
     include_references : {TRUE}, include_citations : {TRUE}]

NextRoute == get_paper_details(RouteArgs)

SpecRoute == Init /\ [][NextRoute]_vars

(***************************************************************************)
(* The renderers on author lists of every length up to MaxNames.           *)
(***************************************************************************)
MaxNames == 7

\* The i-th author: the names are not in alphabetical order, every third
\* author has no authorId and every fifth has no name
AuthorName(i) == "N" \o ToString((i * 3) % 11)

AuthorAt(i) ==
    IF i % 5 = 0 THEN [authorId |-> "a" \o ToString(i)]
    ELSE IF i % 3 = 0 THEN [name |-> AuthorName(i)]
    ELSE [name |-> AuthorName(i), authorId |-> "a" \o ToString(i)]

AuthorLists ==
    {[i \in 1..n |-> AuthorAt(i)] : n \in 0..MaxNames}
        \cup {[i \in 1..n |-> AuthorAt(n + 1 - i)] : n \in 0..MaxNames}

NamesSearchArgs ==
    [keyword : {"ml"}, limit : {10}, year_from : {None}, year_to : {None},
     sort_by : {"relevance"}, advanced_filters : {NoText}]

NamesPapers ==
    {[paperId |-> "p1", title |-> "T"]}
        \cup {[paperId |-> "p1", title |-> "T", authors |-> xs] : xs \in AuthorLists}

NamesSearchOutcomes == {Response(200, [total |-> 1, data |-> <<p>>]) : p \in NamesPapers}

NamesNested ==
    {[title |-> "C"]} \cup {[title |-> "C", authors |-> xs] : xs \in AuthorLists}

NamesSecondaryOutcomes ==
    {Response(200, [citations |-> <<c>>, references |-> <<r, c>>]) :
        c \in NamesNested, r \in NamesNested}

NamesDetailsArgs ==
    [paper_id : {NativeId}, include_references : {TRUE}, include_citations : {TRUE}]

NamesDetailsOutcomes ==
    {Response(200, [title |-> "T", citations |-> <<c>>, references |-> <<r, c>>]) :
        c \in NamesNested, r \in NamesNested}

NextNames ==
    \/ search_papers_via_semanticscholar(NamesSearchArgs)
    \/ SearchPrimaryResponse(NamesSearchOutcomes)
    \/ SearchSecondaryResponse(NamesSecondaryOutcomes)
    \/ get_paper_details(NamesDetailsArgs)
    \/ DetailsPrimaryResponse(NamesDetailsOutcomes)

SpecNames == Init /\ [][NextNames]_vars

(***************************************************************************)
(* Concurrent calls.  The server runs the tools as coroutines of one event *)
(* loop: a coroutine runs from one await to the next, and while it waits   *)
(* for its GET another coroutine may run.  The variables pc .. exc are the *)
(* frame of the coroutine that runs; waiting holds the other frames.       *)
(***************************************************************************)
Frame ==
    [pc |-> pc, op |-> op, args |-> args, requests |-> requests,
     outcomes |-> outcomes, body |-> body, data |-> data, idx |-> idx,
     result |-> result, exc |-> exc]

\* The frame of a coroutine that has not been called yet
InitFrame ==
    [pc |-> "idle", op |-> "none", args |-> EmptyDict, requests |-> <<>>,
     outcomes |-> <<>>, body |-> EmptyDict, data |-> EmptyDict, idx |-> 0,
     result |-> NoResult, exc |-> NoExc]

\* The event loop resumes the coroutine of frame f with its own locals
Resume(f) ==
    /\ pc' = f.pc
    /\ op' = f.op
    /\ args' = f.args
    /\ requests' = f.requests
    /\ outcomes' = f.outcomes
    /\ body' = f.body
    /\ data' = f.data
    /\ idx' = f.idx
    /\ result' = f.result
    /\ exc' = f.exc

Switch_shared_data ==
    /\ waiting # <<>>
    /\ \E k \in 1..Len(waiting) :
        /\ waiting' = [waiting EXCEPT ![k] = Frame]
        /\ pc' = waiting[k].pc
        /\ op' = waiting[k].op
        /\ args' = waiting[k].args
        /\ requests' = waiting[k].requests
        /\ outcomes' = waiting[k].outcomes
        /\ body' = waiting[k].body
        /\ data' = data
        /\ idx' = waiting[k].idx
        /\ result' = waiting[k].result
        /\ exc' = waiting[k].exc
    /\ UNCHANGED API_KEY

\* The running coroutine is at an await (or has not started, or is done) and
\* the event loop turns to another one
Switch ==
    /\ waiting # <<>>
    /\ \E k \in 1..Len(waiting) :
        /\ waiting' = [waiting EXCEPT ![k] = Frame]
        /\ Resume(waiting[k])
    /\ UNCHANGED API_KEY

\* The call is over, its frame is dropped, and the server may call a tool again
CallEnds ==
    /\ pc \in {"returned", "raised"}
    /\ Resume(InitFrame)
    /\ UNCHANGED <<API_KEY, waiting>>

ConcSearchArgs ==
    [keyword : {"ml"}, limit : {10}, year_from : {None}, year_to : {None},
     sort_by : {"relevance"}, advanced_filters : {NoText, Some(VenueText)}]

ConcSearchOutcomes ==
    {Raised("ConnectError"),
     Response(200, [total |-> 532,
                    data |-> <<FullPaper, [paperId |-> "p2", title |-> "U"]>>])}

ConcSecondaryOutcomes ==
    {Raised("ReadTimeout"),
     Response(200, [references |-> <<Nested("R1")>>, citations |-> <<Nested("C1")>>,
                    tldr |-> [text |-> "detail summary"]])}

ConcDetailsArgs ==
    [paper_id : {NativeId}, include_references : {TRUE}, include_citations : {TRUE}]

ConcDetailsOutcomes ==
    {Response(404, EmptyDict), Response(200, FullDetails([name |-> "Nature"]))}

ConcAuthorsOutcomes ==
    {Raised("ReadTimeout"), Response(200, [total |-> 12, data |-> <<FullAuthor>>])}

InitConc ==
    /\ API_KEY \in ApiKeys
    /\ waiting = <<InitFrame>>
    /\ pc = "idle"
    /\ op = "none"
    /\ args = EmptyDict
    /\ requests = <<>>
    /\ outcomes = <<>>
    /\ body = EmptyDict
    /\ data = EmptyDict
    /\ idx = 0
    /\ result = NoResult
    /\ exc = NoExc

NextConc ==
    \/ search_papers_via_semanticscholar(ConcSearchArgs)
    \/ SearchPrimaryResponse(ConcSearchOutcomes)
    \/ SearchSecondaryResponse(ConcSecondaryOutcomes)
    \/ get_paper_details(ConcDetailsArgs)
    \/ DetailsPrimaryResponse(ConcDetailsOutcomes)
    \/ search_authors(AuthorsArgs)
    \/ AuthorsPrimaryResponse(ConcAuthorsOutcomes)
    \/ Switch
    \/ CallEnds

SpecConc == InitConc /\ [][NextConc]_vars

(***************************************************************************)
(* Properties.                                                             *)
(***************************************************************************)
\* The primary response has arrived (or the client has raised)
PrimaryAnswered == Len(outcomes) >= 1

\* The primary GET failed by a non-2xx status, a connection failure or a timeout
PrimaryTransportFailure ==
    /\ PrimaryAnswered
    /\ \/ outcomes[1].exc \in {"ConnectError", "ReadTimeout"}
       \/ outcomes[1].exc = NoExc /\ (outcomes[1].code < 200 \/ outcomes[1].code > 299)

\* The primary GET gave a 2xx response with a JSON body
PrimarySucceeded ==
    /\ PrimaryAnswered
    /\ outcomes[1].exc = NoExc
    /\ outcomes[1].code >= 200 /\ outcomes[1].code <= 299
    /\ outcomes[1].json

\* The texts that open the error strings of the three operations
ErrorTexts ==
    {"Error: Failed to retrieve data from Semantic Scholar API. HTTP error occurred: ",
     "Error: Failed to connect to Semantic Scholar API. Request error occurred: ",
     "Error: An unexpected error occurred. Unexpected error: ",
     "Error: Failed to retrieve paper details. HTTP error occurred: ",
     "Error: Failed to search for authors. "}

\* C1: in each of the three operations, when the primary GET fails by a
\* non-2xx status, a connection failure or a timeout, the call returns an
\* error string that describes the failure and lets no exception escape.
C1_TransportFailureReturnsError ==
    PrimaryTransportFailure =>
        /\ pc = "returned"
        /\ exc = NoExc
        /\ result.prefix \in ErrorTexts
        /\ result.detail # ""
        /\ result.doc = <<>>

C1_Witness ==
    /\ op = "search_authors"
    /\ PrimaryTransportFailure
    /\ outcomes[1].exc = "ReadTimeout"
    /\ pc = "returned"
    /\ result.detail = "timed out"

\* The detail fetch whose outcome is outcomes[k] (k >= 2) belongs to the
\* paper requests[k].idx
SecondaryFailed(o) == o.exc # NoExc \/ o.code # 200 \/ ~o.json

ListingText == "# Academic Search Results for '"

\* C2: in search_papers a failed detail fetch (an exception, or a status
\* other than 200) never aborts the response: the listing is still returned
\* with one entry per paper, the paper keeps exactly what the primary response
\* gave it, and the detail fetch of every later paper that has a paperId is
\* still issued, once, and applied when it succeeds.
C2_DetailFailureTolerated ==
    (op = "search_papers" /\ PrimarySucceeded /\ HasPapers(body)) =>
        /\ pc \in {"await_secondary", "returned"}
        /\ Len(data.data) = Len(body.data)
        /\ \A k \in 2..Len(outcomes) :
              LET i == requests[k].idx
              IN IF SecondaryFailed(outcomes[k])
                    THEN data.data[i] = body.data[i]
                    ELSE /\ data.data[i].references = Get(outcomes[k].body, "references", <<>>)
                         /\ data.data[i].citations = Get(outcomes[k].body, "citations", <<>>)
                         /\ data.data[i].tldr = Get(outcomes[k].body, "tldr", EmptyDict)
        /\ pc = "returned" =>
              /\ result.prefix = ListingText
              /\ Len(result.doc) = Len(body.data)
              /\ Len(outcomes) = Len(requests)
              /\ \A i \in 1..Len(body.data) :
                    /\ Cardinality({k \in 1..Len(requests) : requests[k].idx = i})
                          = IF HasPaperId(body.data[i]) THEN 1 ELSE 0
                    /\ result.doc[i] = RenderSearchPaper(data.data[i])

C2_Witness ==
    /\ op = "search_papers"
    /\ pc = "returned"
    /\ Len(outcomes) = 3
    /\ outcomes[2].exc = "ReadTimeout"
    /\ ~SecondaryFailed(outcomes[3])
    /\ result.doc[1].key_citations = <<>>
    /\ result.doc[2].key_citations = <<"C1", "Untitled", "C3">>

\* advanced_filters is given and is not the text of a JSON object
NotAFilterObject(advanced_filters) ==
    /\ advanced_filters.some
    /\ advanced_filters.v.kind # "empty"
    /\ \/ advanced_filters.v.kind # "json"
       \/ advanced_filters.v.val.t # "object"

\* C3: for every advanced_filters string that is not a well-formed JSON
\* filter object search_papers does not crash: the input is ignored, the
\* primary request goes out with no filter parameter and a result is returned.
C3_BadFiltersIgnored ==
    (op = "search_papers" /\ NotAFilterObject(args.advanced_filters)) =>
        /\ pc # "raised"
        /\ Len(requests) >= 1
        /\ ~Has(requests[1].params, "filter")

\* C4: when the primary response is a success, whatever optional fields of
\* the record are absent, rendering raises no error and a missing title or
\* year is rendered as its placeholder.
C4_RenderingDegrades ==
    PrimarySucceeded =>
        /\ pc # "raised"
        /\ pc = "returned" =>
              \A i \in 1..Len(result.doc) :
                 LET record == IF op = "get_paper_details" THEN data ELSE data.data[i]
                 IN op # "search_authors" =>
                       /\ ~Has(record, "title") =>
                             result.doc[i].title \in {"Untitled", "Untitled Paper"}
                       /\ ~Has(record, "year") => result.doc[i].year = "N/A"

\* C5: every call issues exactly one primary GET on every path, and no
\* request is retried: each detail URL is requested at most once.
C5_OnePrimaryGet ==
    pc \in {"returned", "raised"} =>
        /\ Cardinality({k \in 1..Len(requests) : requests[k].idx = 0}) = 1
        /\ \A i \in 1..MaxPapers + 1 :
              Cardinality({k \in 1..Len(requests) : requests[k].idx = i}) <= 1

\* C6: the year parameter is "{from}-" when only year_from is set,
\* "-{to}" when only year_to is set, "{from}-{to}" when both are set, and
\* is not emitted when neither is set.
C6_YearParameter ==
    (op = "search_papers" /\ Len(requests) >= 1) =>
        LET year_from == args.year_from
            year_to == args.year_to
            params == requests[1].params
        IN /\ (year_from.some /\ year_to.some) =>
                 /\ Has(params, "year")
                 /\ params.year = ToString(year_from.v) \o "-" \o ToString(year_to.v)
           /\ (year_from.some /\ ~year_to.some) =>
                 /\ Has(params, "year")
                 /\ params.year = ToString(year_from.v) \o "-"
           /\ (~year_from.some /\ year_to.some) =>
                 /\ Has(params, "year")
                 /\ params.year = "-" \o ToString(year_to.v)
           /\ (~year_from.some /\ ~year_to.some) => ~Has(params, "year")

\* A DOI: "10.", a registrant code, "/", a suffix
IsDoi(paper_id) ==
    /\ Len(paper_id) >= 6
    /\ SubSeq(paper_id, 1, 3) = <<"1", "0", ".">>
    /\ \E k \in 5..Len(paper_id) - 1 :
          /\ paper_id[k] = "/"
          /\ \A m \in 4..k - 1 : paper_id[m] \in {"0", "1"}

\* A native identifier: hexadecimal digits only
IsNativeId(paper_id) ==
    /\ Len(paper_id) >= 1
    /\ \A k \in 1..Len(paper_id) : paper_id[k] \in {"0", "1", "a"}

\* C7: get_paper_details requests the paper-detail URL followed by "DOI:" and
\* the id when the id is a DOI, the paper-detail URL followed by the id when
\* the id is a native identifier, and one of the two forms for every id.
C7_EndpointRouting ==
    (op = "get_paper_details" /\ Len(requests) >= 1) =>
        LET paper_id == args.paper_id
            url == requests[1].url
            doi_form == PAPER_DETAILS_URL \o "DOI:" \o Str(paper_id)
            native_form == PAPER_DETAILS_URL \o Str(paper_id)
        IN /\ IsDoi(paper_id) => url = doi_form
           /\ IsNativeId(paper_id) => url = native_form
           /\ (url = doi_form) # (url = native_form)

C7_Witness ==
    /\ op = "get_paper_details"
    /\ Len(requests) = 1
    /\ IsDoi(args.paper_id)
    /\ Len(args.paper_id) = MaxIdLen
    /\ requests[1].url = PAPER_DETAILS_URL \o "DOI:" \o Str(args.paper_id)

\* The primary response carries no data entries
NoEntries(d) == ~Has(d, "data") \/ Len(d.data) = 0

\* C8: when the primary response carries no data entries, search_papers
\* returns "No papers found matching your search criteria.", issues no
\* detail GET and raises nothing; search_authors returns its no-authors
\* message.
C8_NoResultsMessage ==
    (PrimarySucceeded /\ NoEntries(body)) =>
        /\ op = "search_papers" =>
              /\ pc = "returned"
              /\ exc = NoExc
              /\ result = [prefix |-> "No papers found matching your search criteria.",
                           detail |-> "", doc |-> <<>>]
              /\ Len(requests) = 1
        /\ op = "search_authors" =>
              /\ pc = "returned"
              /\ exc = NoExc
              /\ result.prefix \o result.detail
                    = "No authors found matching '" \o args.author_name \o "'."
              /\ result.doc = <<>>

C8_Witness ==
    /\ op = "search_papers"
    /\ PrimarySucceeded
    /\ Has(body, "data")
    /\ body.data = <<>>
    /\ pc = "returned"
    /\ result.prefix = NoPapersMessage

\* The kind of failure an exception class stands for
FailureKind(cls) ==
    IF IsInstance(cls, "HTTPStatusError") THEN "status"
    ELSE IF IsInstance(cls, "RequestError") THEN "connection"
    ELSE "unexpected"

\* The kind of failure an error string names
ReportedKind(text) ==
    CASE text \in {"Error: Failed to retrieve data from Semantic Scholar API. HTTP error occurred: ",
                   "Error: Failed to retrieve paper details. HTTP error occurred: "}
              -> "status"
      [] text = "Error: Failed to connect to Semantic Scholar API. Request error occurred: "
              -> "connection"
      [] text = "Error: An unexpected error occurred. Unexpected error: "
              -> "unexpected"
      [] OTHER -> "unclassified"

\* C9: in every operation the error string of a failed primary request names
\* the kind of the failure: status, connection or unexpected.
C9_FailureKindReported ==
    (PrimaryAnswered /\ PrimaryExc(outcomes[1]).cls # NoExc /\ pc = "returned") =>
        ReportedKind(result.prefix) = FailureKind(PrimaryExc(outcomes[1]).cls)

\* C10: sort is "citationCount:desc" for sort_by citationCount, "year:desc"
\* for sort_by year, and is not emitted for relevance or any other value,
\* which raises no error.
C10_SortParameter ==
    op = "search_papers" =>
        /\ ~args.advanced_filters.some => pc # "raised"
        /\ Len(requests) >= 1 =>
              LET sort_by == args.sort_by
                  params == requests[1].params
              IN /\ sort_by = "citationCount" =>
                       Has(params, "sort") /\ params.sort = "citationCount:desc"
                 /\ sort_by = "year" =>
                       Has(params, "sort") /\ params.sort = "year:desc"
                 /\ sort_by \notin {"citationCount", "year"} => ~Has(params, "sort")

C10_Witness ==
    /\ op = "search_papers"
    /\ pc = "await_primary"
    /\ args.sort_by = "date"
    /\ ~Has(requests[1].params, "sort")

\* The first n names of xs in their order, joined, with suffix after them
\* when xs has more than n names
Capped(names, n, suffix) ==
    LET shown == [i \in 1..(IF Len(names) < n THEN Len(names) ELSE n) |-> names[i]]
    IN Join(shown, ", ") \o (IF Len(names) > n THEN suffix ELSE "")

\* The author strings of the nested records xs on the page agree with
\* Capped at cap n
NestedCapped(rendered, xs, n) ==
    /\ Len(rendered) = Len(xs)
    /\ \A j \in 1..Len(xs) :
          rendered[j] = Capped(Names(Get(xs[j], "authors", <<>>)), n, " et al.")

\* The places other than the authors line of a search result
CappedElsewhere ==
    /\ op = "search_papers" =>
          \A i \in 1..Len(result.doc) :
             LET paper == data.data[i]
                 entry == result.doc[i]
             IN /\ entry.cite_authors
                      = Capped(Names(Get(paper, "authors", <<>>)), 6, " et al.")
                /\ NestedCapped(entry.key_citation_authors,
                                Take(Get(paper, "citations", <<>>), 3), 3)
                /\ NestedCapped(entry.key_reference_authors,
                                Take(Get(paper, "references", <<>>), 3), 3)
    /\ op = "get_paper_details" =>
          /\ NestedCapped(result.doc[1].key_citation_authors,
                          IF args.include_citations
                          THEN Get(data, "citations", <<>>) ELSE <<>>, 5)
          /\ NestedCapped(result.doc[1].key_reference_authors,
                          IF args.include_references
                          THEN Get(data, "references", <<>>) ELSE <<>>, 3)

\* The authors line of the i-th search result is the first 5 authors (each
\* as the line writes an author) followed by suffix when there are more
AuthorLineCapped(i, suffix) ==
    LET authors == Get(data.data[i], "authors", <<>>)
    IN result.doc[i].authors
          = Capped([k \in 1..Len(authors) |-> AuthorLink(authors[k])], 5, suffix)

Rendered == pc = "returned" /\ result.doc # <<>>

\* C11 as stated: in every place that caps an author list at N, a longer
\* list ends in " et al." after its first N names and a list of at most N
\* names is shown in full; the authors line of a search result is one of
\* these places.
C11_EtAlEverywhere ==
    Rendered =>
        /\ CappedElsewhere
        /\ op = "search_papers" =>
              \A i \in 1..Len(result.doc) : AuthorLineCapped(i, " et al.")

\* C11, amended: the same, except that the authors line of a search result
\* ends in " and K others", K being the number of authors left out.
C11_AuthorListsCapped ==
    Rendered =>
        /\ CappedElsewhere
        /\ op = "search_papers" =>
              \A i \in 1..Len(result.doc) :
                 LET n == Len(Get(data.data[i], "authors", <<>>))
                 IN AuthorLineCapped(i, " and " \o ToString(n - 5) \o " others")

C11_Witness ==
    /\ op = "search_papers"
    /\ Rendered
    /\ Len(Get(data.data[1], "authors", <<>>)) = 7
    /\ result.doc[1].cite_authors = "N3, N6, N9, N1, , N7 et al."
    /\ result.doc[1].authors
          = "[N3](https://www.semanticscholar.org/author/a1), [N6](https://www.semanticscholar.org/author/a2), N9, [N1](https://www.semanticscholar.org/author/a4), [](https://www.semanticscholar.org/author/a5) and 2 others"
    /\ Len(Get(data.data[1].citations[1], "authors", <<>>)) = 4
    /\ result.doc[1].key_citation_authors[1] = "N3, N6, N9 et al."

\* The positions of the detail GETs of the call, in the order of issue
SecondaryIdx == [k \in 1..(Len(requests) - 1) |-> requests[k + 1].idx]

\* The papers of the primary response
Papers == Get(body, "data", <<>>)

\* The positions, ascending, of the papers from position i on that have a
\* non-empty paperId
RECURSIVE PositionsWithId(_, _)
PositionsWithId(ps, i) ==
    IF i > Len(ps) THEN <<>>
    ELSE IF Has(ps[i], "paperId") /\ ps[i].paperId # ""
            THEN <<i>> \o PositionsWithId(ps, i + 1)
            ELSE PositionsWithId(ps, i + 1)

IsPrefix(xs, ys) == Len(xs) <= Len(ys) /\ xs = SubSeq(ys, 1, Len(xs))

\* Every request but possibly the last has been answered, the first request
\* is the primary GET, and a detail GET follows a successful primary only
OneAtATime ==
    /\ Len(requests) - Len(outcomes) \in {0, 1}
    /\ Len(requests) - Len(outcomes) = 1 <=> pc \in {"await_primary", "await_secondary"}
    /\ Len(requests) >= 1 => requests[1].idx = 0 /\ requests[1].url = BASE_URL
    /\ Len(requests) >= 2 => PrimarySucceeded
    /\ \A k \in 1..Len(SecondaryIdx) :
          /\ SecondaryIdx[k] \in 1..Len(Papers)
          /\ requests[k + 1].url
                = PAPER_DETAILS_URL \o Papers[SecondaryIdx[k]].paperId \o "?fields="
                     \o FIELDS \o ",references.limit(5),citations.limit(5)"

SearchDone == pc = "returned" /\ PrimarySucceeded

\* C13 as stated: within one search_papers call at most one request is in
\* flight, detail GETs follow a successful primary GET only, and the k-th
\* detail GET is for the k-th returned result, every result getting one.
C13_OneGetPerResult ==
    op = "search_papers" =>
        /\ OneAtATime
        /\ IsPrefix(SecondaryIdx, [i \in 1..Len(Papers) |-> i])
        /\ SearchDone => Len(SecondaryIdx) = Len(Papers)

\* C13, amended: the same, the detail GETs being one per returned result
\* that has a non-empty paperId, in result order; a result without one gets
\* no request.
C13_OneGetPerResultWithId ==
    op = "search_papers" =>
        /\ OneAtATime
        /\ IsPrefix(SecondaryIdx, PositionsWithId(Papers, 1))
        /\ SearchDone => SecondaryIdx = PositionsWithId(Papers, 1)

C13_Witness ==
    /\ op = "search_papers"
    /\ SearchDone
    /\ Len(Papers) = 2
    /\ ~Has(Papers[1], "paperId")
    /\ SecondaryIdx = <<2>>
    /\ Len(outcomes) = 2
    /\ outcomes[2].exc = "ReadTimeout"

\* Two detail GETs of one call, the second issued after the first was answered
C13_WitnessTwo ==
    /\ op = "search_papers"
    /\ pc = "await_secondary"
    /\ SecondaryIdx = <<1, 2>>
    /\ Len(outcomes) = 2

\* The remote name of each filter, and the operator that wraps its value
RemoteName ==
    [venue |-> "venue", fields_of_study |-> "fieldsOfStudy",
     publication_types |-> "publicationTypes",
     min_citation_count |-> "citationCount", is_open_access |-> "isOpenAccess"]

RemoteOperator ==
    [fields_of_study |-> "$in", publication_types |-> "$in",
     min_citation_count |-> "$gte"]

\* The filters supplied by the JSON object d, in the remote grammar
RemoteFilters(d) ==
    LET supplied == DOMAIN d \cap DOMAIN RemoteName
    IN [r \in {RemoteName[k] : k \in supplied} |->
           LET k == CHOOSE x \in supplied : RemoteName[x] = r
           IN IF k \in DOMAIN RemoteOperator
                 THEN JObj(RemoteOperator[k] :> d[k])
                 ELSE d[k]]

\* advanced_filters is the text of a JSON object
IsFilterObject(advanced_filters) ==
    /\ advanced_filters.some
    /\ advanced_filters.v.kind = "json"
    /\ advanced_filters.v.val.t = "object"

\* C15: for every advanced_filters JSON object the primary request carries
\* the supplied filters in the remote grammar (venue as venue, fields_of_study
\* as fieldsOfStudy under $in, publication_types as publicationTypes under
\* $in, min_citation_count as citationCount under $gte, is_open_access as
\* isOpenAccess), unknown keys are left out, and the filter parameter is
\* present exactly when at least one of the five filters was supplied.
C15_FiltersTranslated ==
    (op = "search_papers" /\ IsFilterObject(args.advanced_filters)) =>
        LET d == args.advanced_filters.v.val.d
            expected == RemoteFilters(d)
        IN /\ Len(requests) = 1
           /\ Has(requests[1].params, "filter") <=> DOMAIN expected # {}
           /\ DOMAIN expected # {} =>
                 requests[1].params.filter = JsonText(JObj(expected))

\* A call has been made
Called == op # "none"

\* Every call comes to an end: it returns or an exception escapes it
CallTerminates == Called ~> (pc \in {"returned", "raised"})

\* C14: when every GET is answered or times out, every call of every
\* operation terminates and returns a string, whatever the number of papers
\* and whichever detail fetches fail.
C14_CallReturnsString == Called ~> (pc = "returned")

\* The except clauses of an operation meet e in a call whose frame is f
AloneHandled(handlers, e, f) ==
    LET h == FirstHandler(handlers, e, 1)
    IN IF h = 0
          THEN [f EXCEPT !.pc = "raised", !.exc = e.cls]
          ELSE [f EXCEPT !.pc = "returned",
                         !.result = Message(handlers[h].prefix,
                                            ErrorDetail(handlers[h], e))]

\* The frame of a call of operation o with arguments a, run with no other
\* call beside it, when it reaches its first await
AloneCalled(o, a) ==
    LET f == [InitFrame EXCEPT !.op = o, !.args = a, !.pc = "await_primary"]
    IN CASE o = "none" -> InitFrame
         [] o = "search_papers" ->
              LET fl == ProcessFilters(a.advanced_filters)
              IN IF fl.exc # NoExc
                    THEN [f EXCEPT !.pc = "raised", !.exc = fl.exc]
                    ELSE [f EXCEPT !.requests =
                             <<Request(0, BASE_URL, SearchParams(a, fl.filters))>>]
         [] o = "get_paper_details" ->
              [f EXCEPT !.requests =
                  <<Request(0, Endpoint(a.paper_id), [fields |-> FieldsParam(a)])>>]
         [] o = "search_authors" ->
              [f EXCEPT !.requests =
                  <<Request(0, AUTHOR_URL,
                            [query |-> a.author_name, limit |-> ToString(a.limit),
                             fields |-> AUTHOR_FIELDS])>>]

\* The loop over the papers d.data from position i on in the lone call
AloneLoop(f, d, i) ==
    LET j == NextWithId(d, i)
    IN IF j = 0
          THEN [f EXCEPT !.data = d, !.pc = "returned", !.idx = 0,
                         !.result = SearchReturn(f.args, d)]
          ELSE [f EXCEPT !.data = d, !.pc = "await_secondary", !.idx = j,
                         !.requests = Append(@, Request(j, DetailsUrl(d.data[j]),
                                                        EmptyDict))]

\* The lone call at frame f gets the answer o to the GET it awaits
AloneAnswered(f, o) ==
    LET g == [f EXCEPT !.outcomes = Append(@, o)]
        h == [g EXCEPT !.body = o.body, !.data = o.body, !.pc = "returned"]
    IN IF f.pc = "await_secondary"
          THEN IF SecondaryExc(o).cls # NoExc /\ ~DetailsFetchCaught(SecondaryExc(o))
                  THEN AloneHandled(SearchHandlers, SecondaryExc(o), g)
                  ELSE AloneLoop(g, Enrich(f.data, f.idx, o), f.idx + 1)
       ELSE IF f.pc # "await_primary" THEN f
       ELSE IF PrimaryExc(o).cls # NoExc
          THEN AloneHandled(CASE f.op = "search_papers" -> SearchHandlers
                              [] f.op = "get_paper_details" -> DetailsHandlers
                              [] f.op = "search_authors" -> AuthorsHandlers,
                            PrimaryExc(o), g)
       ELSE CASE f.op = "search_papers" ->
                   AloneLoop([g EXCEPT !.body = o.body], o.body, 1)
              [] f.op = "get_paper_details" ->
                   IF DOMAIN o.body = {}
                      THEN [h EXCEPT !.result = Message(NoPaperMessage, "")]
                   ELSE IF DetailsRenderExc(o.body) # NoExc
                      THEN [h EXCEPT !.pc = "raised", !.exc = DetailsRenderExc(o.body)]
                   ELSE [h EXCEPT !.result =
                            Document("# ", "", <<RenderDetails(f.args, o.body)>>)]
              [] f.op = "search_authors" ->
                   [h EXCEPT !.result = AuthorsReturn(f.args, o.body)]

\* The frame of the call of o with arguments a that has run alone and has
\* got the answers outs to its requests so far
RECURSIVE Alone(_, _, _)
Alone(o, a, outs) ==
    IF outs = <<>> THEN AloneCalled(o, a)
    ELSE AloneAnswered(Alone(o, a, SubSeq(outs, 1, Len(outs) - 1)), outs[Len(outs)])

\* The calls in progress
Frames == <<Frame>> \o waiting

\* Every call is where the same call is when it runs alone and gets the
\* same answers: the same requests, the same data, the same returned string
FramesAsAlone ==
    \A k \in 1..Len(Frames) :
        Frames[k] = Alone(Frames[k].op, Frames[k].args, Frames[k].outcomes)

\* C12: the calls share no mutable state.  Whatever the interleaving of
\* concurrent calls of the three operations, the requests and the returned
\* string of each call are those of the same call run alone with the same
\* arguments, the same API key and the same answers to its requests, and no
\* step of a call changes the API key, which is all a later call can see.
C12_NoSharedState == []FramesAsAlone /\ [][API_KEY' = API_KEY]_vars

\* Two calls in progress at once: a search that waits for the detail GET of
\* its second paper while get_paper_details waits for its primary GET
C12_Witness ==
    /\ Len(waiting) = 1
    /\ op = "search_papers" /\ pc = "await_secondary" /\ idx = 2
    /\ Has(data.data[1], "citations")
    /\ waiting[1].op = "get_paper_details" /\ waiting[1].pc = "await_primary"
    /\ requests[1].headers = ("x-api-key" :> "key1")
    /\ waiting[1].requests[1].headers = requests[1].headers

====
